---- MODULE Spec2Model ----
(***************************************************************************)
(* A model of simfony's scope tracker (src/src/scope.rs) and of the        *)
(* recursive lowering of the parsed AST (src/src/compile.rs).              *)
(*                                                                         *)
(* SpecScope drives the public API of GlobalScope (push_scope, pop_scope,  *)
(* insert, insert_witness, get) in any order.  Spec runs Program::eval /   *)
(* Expression::eval as a small-step machine over an explicit call stack;   *)
(* the AST that is lowered is the input and is chosen node by node as the  *)
(* descent reaches it.                                                     *)
(***************************************************************************)
EXTENDS Naturals, Sequences, FiniteSets, TLC

VARIABLES scopes, stack, ret, status, last, follow, firstFail

vars == <<scopes, stack, ret, status, last, follow, firstFail>>

(***************************************************************************)
(* Bounds of the model.                                                    *)
(***************************************************************************)
\* SpecScope: levels pushed at most, and active bindings and witness names
\* (over all levels) at most.
MaxLevels == 3
MaxBindings == 3
MaxWitnesses == 1
\* Spec: levels of the input AST at most (a block, a match, a call or a
\* parenthesis takes one level, an injection, a product, an array, a list or
\* the arguments of a call two; below the last level a statement or tail of
\* a block may still be a block, up to MaxLevels scope levels), statements of
\* one block at most, elements of one array / list literal (arguments of one
\* call) at most.  MaxBindings and MaxWitnesses bound the tracker there too.
MaxNest == 2
MaxStmts == 2
MaxElems == 2

(***************************************************************************)
(* Patterns (parse::Pattern): Identifier(name), Ignore, Product(l, r).     *)
(***************************************************************************)
Identifiers == {"a", "b"}

PId(i) == <<"Identifier", i>>
PIgnore == <<"Ignore">>
PProd(l, r) == <<"Product", l, r>>

LeafPatterns == {PId(i) : i \in Identifiers} \cup {PIgnore}

Patterns == LeafPatterns \cup {PProd(PId("b"), PId("a"))}

\* The patterns of the assignments and of the match arms that are lowered.
LetPatterns == {PId("a"), PId("b"), PProd(PId("b"), PId("a"))}
ArmPatterns == {PId("a"), PIgnore}

\* Pattern::get_identifier
get_identifier(p) ==
  IF p[1] = "Identifier" THEN <<p[2]>> ELSE <<>>

\* DirectedTree::find over a base pattern: the path (Left / Right steps from
\* the root) to the first leaf, left subtree first, that is the identifier;
\* <<"none">> when there is none.
RECURSIVE find(_, _)
find(p, identifier) ==
  IF p[1] = "Product"
  THEN LET l == find(p[2], identifier)
           r == find(p[3], identifier)
       IN IF l # <<"none">> THEN <<"Left">> \o l
          ELSE IF r # <<"none">> THEN <<"Right">> \o r
          ELSE <<"none">>
  ELSE IF get_identifier(p) = <<identifier>> THEN <<>> ELSE <<"none">>

\* A term built of take / drop / iden only is written as the sequence of its
\* constructors, outermost first: drop (take iden) = <<"drop","take","iden">>.
Step(direction) == IF direction = "Left" THEN "take" ELSE "drop"

\* Pattern::get_program: None (<<>>) or Some(term) (<<term>>).
get_program(p, identifier) ==
  LET path == find(p, identifier)
  IN IF path = <<"none">> THEN <<>>
     ELSE <<[k \in 1..Len(path) |-> Step(path[k])] \o <<"iden">>>>

(***************************************************************************)
(* GlobalScope.  A binding is the inserted pattern together with a ghost   *)
(* tag org that names the place that inserted it (it is never read by the  *)
(* operations below).                                                      *)
(***************************************************************************)
Binding(p, org) == [pat |-> p, org |-> org]

\* GlobalScope::new
new == [variables |-> << <<>> >>, witnesses |-> << <<>> >>]

Front(s) == SubSeq(s, 1, Len(s) - 1)

\* GlobalScope::push_scope
push_scope(s) ==
  [variables |-> Append(s.variables, <<>>),
   witnesses |-> Append(s.witnesses, <<>>)]

\* A plausible slip: only the variables stack is popped.
pop_scope_VariablesOnly(s) ==
  IF Len(s.variables) = 0
  THEN [panic |-> TRUE, scope |-> s]
  ELSE [panic |-> FALSE, scope |-> [s EXCEPT !.variables = Front(s.variables)]]

\* A plausible slip: the pop is skipped altogether.
pop_scope_Skipped(s) == [panic |-> FALSE, scope |-> s]

\* GlobalScope::pop_scope: Vec::pop().expect(..) on variables, then on
\* witnesses; the panic is raised by an empty Vec only.
pop_scope(s) ==
  IF Len(s.variables) = 0
  THEN [panic |-> TRUE, scope |-> s]
  ELSE LET s1 == [s EXCEPT !.variables = Front(s.variables)]
       IN IF Len(s1.witnesses) = 0
          THEN [panic |-> TRUE, scope |-> s1]
          ELSE [panic |-> FALSE,
                scope |-> [s1 EXCEPT !.witnesses = Front(s1.witnesses)]]

\* GlobalScope::insert: last_mut().unwrap() panics on an empty stack.
insert(s, b) ==
  IF Len(s.variables) = 0
  THEN [panic |-> TRUE, scope |-> s]
  ELSE [panic |-> FALSE,
        scope |-> [s EXCEPT !.variables[Len(s.variables)] = Append(@, b)]]

\* GlobalScope::insert_witness
insert_witness(s, key) ==
  IF Len(s.witnesses) = 0
  THEN [panic |-> TRUE, scope |-> s]
  ELSE [panic |-> FALSE,
        scope |-> [s EXCEPT !.witnesses[Len(s.witnesses)] = Append(@, key)]]

\* scope.iter().rev().enumerate().find_map(..): the least idx, counted from
\* the most recent binding of the level, whose pattern holds the identifier.
Hits(scope, identifier) ==
  {idx \in 0..(Len(scope) - 1) :
     get_program(scope[Len(scope) - idx].pat, identifier) # <<>>}

Min(S) == CHOOSE x \in S : \A y \in S : x <= y

Drops(n) == [k \in 1..n |-> "drop"]

NotFound == [panic |-> TRUE, level |-> 0, index |-> 0, pos |-> 0, expr |-> <<>>]

\* A plausible slip: the bindings of the levels already scanned are not
\* counted (pos is reset for every level).
RECURSIVE get_from_NoCarry(_, _, _, _)
get_from_NoCarry(variables, identifier, lvl, pos) ==
  IF lvl = 0 THEN NotFound
  ELSE LET scope == variables[lvl]
           hits == Hits(scope, identifier)
       IN IF hits # {}
          THEN LET idx == Min(hits)
               IN [panic |-> FALSE, level |-> lvl, index |-> Len(scope) - idx,
                   pos |-> idx,
                   expr |-> Drops(idx) \o <<"take">>
                            \o get_program(scope[Len(scope) - idx].pat, identifier)[1]]
          ELSE get_from_NoCarry(variables, identifier, lvl - 1, 0)

\* A plausible slip: the levels are scanned oldest first.
RECURSIVE get_from_OldestFirst(_, _, _, _)
get_from_OldestFirst(variables, identifier, lvl, pos) ==
  LET n == Len(variables)
      k == n + 1 - lvl
  IN IF lvl = 0 THEN NotFound
     ELSE LET scope == variables[k]
              hits == Hits(scope, identifier)
          IN IF hits # {}
             THEN LET idx == Min(hits)
                  IN [panic |-> FALSE, level |-> k, index |-> Len(scope) - idx,
                      pos |-> pos + idx,
                      expr |-> Drops(pos + idx) \o <<"take">>
                               \o get_program(scope[Len(scope) - idx].pat, identifier)[1]]
             ELSE get_from_OldestFirst(variables, identifier, lvl - 1, pos + Len(scope))

\* A plausible slip: the resolved binding is counted among the bindings to
\* step over.
RECURSIVE get_from_OffByOne(_, _, _, _)
get_from_OffByOne(variables, identifier, lvl, pos) ==
  IF lvl = 0 THEN NotFound
  ELSE LET scope == variables[lvl]
           hits == Hits(scope, identifier)
       IN IF hits # {}
          THEN LET idx == Min(hits)
               IN [panic |-> FALSE, level |-> lvl, index |-> Len(scope) - idx,
                   pos |-> pos + idx + 1,
                   expr |-> Drops(pos + idx + 1) \o <<"take">>
                            \o get_program(scope[Len(scope) - idx].pat, identifier)[1]]
          ELSE get_from_OffByOne(variables, identifier, lvl - 1, pos + Len(scope))

\* The loop of GlobalScope::get from level lvl downwards, pos bindings
\* scanned so far.  level and index name the binding the loop stopped at.
RECURSIVE get_from(_, _, _, _)
get_from(variables, identifier, lvl, pos) ==
  IF lvl = 0 THEN NotFound
  ELSE LET scope == variables[lvl]
           hits == Hits(scope, identifier)
       IN IF hits # {}
          THEN LET idx == Min(hits)
               IN [panic |-> FALSE, level |-> lvl, index |-> Len(scope) - idx,
                   pos |-> pos + idx,
                   expr |-> Drops(pos + idx) \o <<"take">>
                            \o get_program(scope[Len(scope) - idx].pat, identifier)[1]]
          ELSE get_from(variables, identifier, lvl - 1, pos + Len(scope))

\* GlobalScope::get
get(s, identifier) == get_from(s.variables, identifier, Len(s.variables), 0)


(***************************************************************************)
(* Types.  A term is kept as its output (target) type, a Simplicity type:  *)
(* unit, sum, product, a word of 2^n bits, or a free type variable.        *)
(***************************************************************************)
TUnit == <<"unit">>
TFree == <<"free">>
TSum(a, b) == <<"sum", a, b>>
TProd(a, b) == <<"prod", a, b>>
TWord(n) == <<"word", n>>

\* A word type one level unfolded: 2^1 = 1 + 1, 2^(2n) = 2^n * 2^n.
Expand(t) ==
  IF t[1] # "word" THEN t
  ELSE IF t[2] = 1 THEN TSum(TUnit, TUnit)
  ELSE TProd(TWord(t[2] \div 2), TWord(t[2] \div 2))

\* Whether two types unify (type variables taken as independent).
RECURSIVE Unify(_, _)
Unify(a, b) ==
  IF a[1] = "free" \/ b[1] = "free" THEN TRUE
  ELSE IF a[1] = "word" /\ b[1] = "word" THEN a[2] = b[2]
  ELSE LET x == Expand(a)
           y == Expand(b)
       IN /\ x[1] = y[1]
          /\ x[1] # "unit" => (Unify(x[2], y[2]) /\ Unify(x[3], y[3]))

\* The unified type of two types that unify.
RECURSIVE Merge(_, _)
Merge(a, b) ==
  IF a[1] = "free" THEN b
  ELSE IF b[1] = "free" THEN a
  ELSE IF a[1] = "word" THEN a
  ELSE IF b[1] = "word" THEN b
  ELSE IF a[1] = "unit" THEN a
  ELSE <<a[1], Merge(a[2], b[2]), Merge(a[3], b[3])>>

\* parse::Type as far as the lowering reads it: Boolean, UInt(bits),
\* Array(element, size).  An Option<&Type> is <<>> (None) or <<ty>>.
Boolean == <<"Boolean">>
UInt(n) == <<"UInt", n>>
Array(ty, n) == <<"Array", ty, n>>

Types == {UInt(32), Array(Boolean, 2)}

ReqdTypes == {<<>>} \cup {<<t>> : t \in Types}

\* The balanced product of a non-empty sequence of types (BTreeSlice::fold
\* with pair): one element is itself, otherwise the largest power of two
\* below the length goes left.
RECURSIVE Pow2Below(_, _)
Pow2Below(n, k) == IF 2 * k >= n THEN k ELSE Pow2Below(n, 2 * k)

RECURSIVE fold(_)
fold(tys) ==
  IF Len(tys) = 1 THEN tys[1]
  ELSE LET k == Pow2Below(Len(tys), 1)
       IN TProd(fold(SubSeq(tys, 1, k)), fold(SubSeq(tys, k + 1, Len(tys))))

\* Type::to_simplicity
RECURSIVE to_simplicity(_)
to_simplicity(ty) ==
  IF ty[1] = "Boolean" THEN TWord(1)
  ELSE IF ty[1] = "UInt" THEN TWord(ty[2])
  ELSE fold([k \in 1..ty[3] |-> to_simplicity(ty[2])])

\* Type::to_uint
to_uint(ty) == IF ty[1] = "UInt" THEN <<ty[2]>> ELSE <<>>

\* NonZeroPow2Usize::next: the least power of two that is at least n.
RECURSIVE NextPow2(_, _)
NextPow2(n, k) == IF k >= n THEN k ELSE NextPow2(n, 2 * k)

\* The closure process of the List arm: an empty block is _false, another
\* one is injr of its folded elements.
process(block) ==
  IF Len(block) = 0 THEN TSum(TUnit, TFree) ELSE TSum(TFree, fold(block))

\* Partition::from_slice(nodes, size) folded with process and pair: blocks of
\* size, size / 2, .., 1 elements, each full or empty, filled in order.
RECURSIVE partition_fold(_, _)
partition_fold(tys, size) ==
  IF size <= 1 THEN process(tys)
  ELSE LET n == IF Len(tys) >= size THEN size ELSE 0
       IN TProd(process(SubSeq(tys, 1, n)),
                partition_fold(SubSeq(tys, n + 1, Len(tys)), size \div 2))

\* The primitive registry (Elements::from_str): the names it knows, with the
\* source and target types of the jet.
Jets == {"verify"}
JetNames == Jets \cup {"nonexistent"}
JetSource(name) == TWord(1)
JetTarget(name) == TUnit

(***************************************************************************)
(* The active bindings in insertion order: insert appends to the top level *)
(* only and levels are pushed and popped last-in first-out, so the         *)
(* concatenation of the levels, oldest level first, is that order.         *)
(***************************************************************************)
RECURSIVE Flatten(_)
Flatten(variables) ==
  IF Len(variables) = 0 THEN <<>>
  ELSE Flatten(Front(variables)) \o variables[Len(variables)]

(***************************************************************************)
(* Results of the lowering functions: Result<ProgNode, RichError>.  Ok     *)
(* carries the term (its output type), Err the error, its argument (the    *)
(* name or the type it carries) and its span.  A span is the number of the *)
(* AST node it belongs to.                                                 *)
(***************************************************************************)
NoResult == [kind |-> "none", ty |-> TUnit, err |-> "", arg |-> <<>>, span |-> 0]
Ok(ty) == [kind |-> "Ok", ty |-> ty, err |-> "", arg |-> <<>>, span |-> 0]
Err(e, arg, span) == [kind |-> "Err", ty |-> TUnit, err |-> e, arg |-> arg, span |-> span]
Panicked == [kind |-> "Panic", ty |-> TUnit, err |-> "", arg |-> <<>>, span |-> 0]

\* The value handed back by the call that returned last, with the callee's
\* frame data: its function and variant, span, jet name, required type, and
\* the variables of its tracker when it was called (v0) and now (v1).
NoRet ==
  [kind |-> "none", ty |-> TUnit, err |-> "", arg |-> <<>>, span |-> 0,
   op |-> "", fkind |-> "", fspan |-> 0, name |-> "", reqd |-> <<>>,
   v0 |-> <<>>, v1 |-> <<>>]

Core(r) == [kind |-> r.kind, ty |-> r.ty, err |-> r.err, arg |-> r.arg, span |-> r.span]

(***************************************************************************)
(* SpecScope: the public operations of GlobalScope called in any order on  *)
(* one tracker, scopes[1].  A panic ends the run.  last records the call   *)
(* just made: its name, whether it panicked, the depth before it, its      *)
(* argument, the result of get with (org) the tag of the binding it        *)
(* stopped at, and (popped) the level removed by a pop_scope since which   *)
(* only get was called.                                                    *)
(***************************************************************************)
\* The tag of the binding a get stopped at.
OrgOf(s, r) == IF r.panic THEN <<0, "none">> ELSE s.variables[r.level][r.index].org

NoLast ==
  [op |-> "none", panic |-> FALSE, depth |-> 0, arg |-> "", res |-> NotFound,
   popped |-> <<>>, org |-> <<0, "none">>]

ApiOrg == <<0, "api">>

WitnessNames == {"w"}

InitScope ==
  /\ scopes = <<new>>
  /\ stack = <<>>
  /\ ret = NoRet
  /\ status = "idle"
  /\ last = NoLast
  /\ follow = 0
  /\ firstFail = NoResult

Depth(s) == Len(s.variables)

ApiFrame == UNCHANGED <<stack, ret, follow, firstFail>>

PushScope ==
  /\ status = "idle"
  /\ Depth(scopes[1]) < MaxLevels
  /\ scopes' = <<push_scope(scopes[1])>>
  /\ last' = [NoLast EXCEPT !.op = "push_scope", !.depth = Depth(scopes[1])]
  /\ UNCHANGED status
  /\ ApiFrame

PopScope ==
  /\ status = "idle"
  /\ LET r == pop_scope(scopes[1])
     IN /\ scopes' = <<r.scope>>
        /\ status' = IF r.panic THEN "panicked" ELSE "idle"
        /\ last' = [NoLast EXCEPT !.op = "pop_scope", !.panic = r.panic,
                                  !.depth = Depth(scopes[1]),
                                  !.popped = IF r.panic THEN <<>>
                                             ELSE <<scopes[1].variables[Depth(scopes[1])]>>]
  /\ ApiFrame

Insert ==
  /\ status = "idle"
  /\ Len(Flatten(scopes[1].variables)) < MaxBindings
  /\ \E p \in Patterns :
       LET r == insert(scopes[1], Binding(p, ApiOrg))
       IN /\ scopes' = <<r.scope>>
          /\ status' = IF r.panic THEN "panicked" ELSE "idle"
          /\ last' = [NoLast EXCEPT !.op = "insert", !.panic = r.panic,
                                    !.depth = Depth(scopes[1])]
  /\ ApiFrame

InsertWitness ==
  /\ status = "idle"
  /\ Len(Flatten(scopes[1].witnesses)) < MaxWitnesses
  /\ \E w \in WitnessNames :
       LET r == insert_witness(scopes[1], w)
       IN /\ scopes' = <<r.scope>>
          /\ status' = IF r.panic THEN "panicked" ELSE "idle"
          /\ last' = [NoLast EXCEPT !.op = "insert_witness", !.panic = r.panic,
                                    !.depth = Depth(scopes[1])]
  /\ ApiFrame

Get ==
  /\ status = "idle"
  /\ \E i \in Identifiers :
       LET r == get(scopes[1], i)
       IN /\ status' = IF r.panic THEN "panicked" ELSE "idle"
          /\ last' = [op |-> "get", panic |-> r.panic, depth |-> Depth(scopes[1]),
                      arg |-> i, res |-> r,
                      popped |-> IF last.op \in {"pop_scope", "get"}
                                 THEN last.popped ELSE <<>>,
                      org |-> OrgOf(scopes[1], r)]
  /\ UNCHANGED scopes
  /\ ApiFrame

NextScope == PushScope \/ PopScope \/ Insert \/ InsertWitness \/ Get

SpecScope == InitScope /\ [][NextScope]_vars


Binds(b, identifier) == find(b.pat, identifier) # <<"none">>

BoundAt(flat, identifier) == {k \in 1..Len(flat) : Binds(flat[k], identifier)}

Max(S) == CHOOSE x \in S : \A y \in S : x >= y

\* The number of drop steps in front of the first take of an access path.
RECURSIVE OuterDrops(_)
OuterDrops(expr) ==
  IF Len(expr) = 0 \/ expr[1] # "drop" THEN 0 ELSE 1 + OuterDrops(Tail(expr))

\* The position in Flatten(variables) of the binding at (level, index).
FlatPos(variables, level, index) ==
  Len(Flatten(SubSeq(variables, 1, level - 1))) + index

\* C1: a get of a bound identifier returns a path whose number of outer drops
\* is the number of active bindings inserted after the resolved binding (the
\* later ones of its level and all of every more recently pushed level); for an
\* identifier pattern the path is drop^pos (take iden).
C1_DropCount ==
  (last.op = "get" /\ BoundAt(Flatten(scopes[1].variables), last.arg) # {}) =>
    LET flat == Flatten(scopes[1].variables)
        r == last.res
        at == FlatPos(scopes[1].variables, r.level, r.index)
        after == Len(flat) - at
    IN /\ ~r.panic
       /\ Binds(flat[at], last.arg)
       /\ OuterDrops(r.expr) = after
       /\ r.expr[after + 1] = "take"
       /\ flat[at].pat[1] = "Identifier" =>
            r.expr = Drops(after) \o <<"take", "iden">>

\* C1 witness: the doc comment's stack [a] [b c]: a bound in the older level,
\* two bindings in the newer one, and get(a) answered drop drop take iden.
C1_Witness ==
  /\ last.op = "get" /\ last.arg = "a" /\ ~last.panic
  /\ Len(scopes[1].variables) = 2
  /\ Len(scopes[1].variables[1]) = 1
  /\ scopes[1].variables[1][1].pat = PId("a")
  /\ Len(scopes[1].variables[2]) = 2
  /\ BoundAt(scopes[1].variables[2], "a") = {}
  /\ last.res.expr = <<"drop", "drop", "take", "iden">>


\* C2 as claimed: the two stacks have the same depth, the depth is at least
\* one, and a pop_scope called with only the outermost level left fails
\* fatally and leaves that level in place.
C2_AtLeastOneLevel ==
  /\ Len(scopes[1].variables) = Len(scopes[1].witnesses)
  /\ Len(scopes[1].variables) >= 1
  /\ (last.op = "pop_scope" /\ last.depth = 1) =>
       (last.panic /\ Depth(scopes[1]) = 1)

\* C2 as amended: the two stacks always have the same depth, which may reach
\* zero: pop_scope removes the top level of both stacks, the outermost one
\* included, and fails fatally only when no level is left; insert and
\* insert_witness fail fatally exactly when no level is left.
C2_SameDepth ==
  /\ Len(scopes[1].variables) = Len(scopes[1].witnesses)
  /\ last.op = "pop_scope" =>
       /\ last.panic <=> (last.depth = 0)
       /\ Depth(scopes[1]) = IF last.panic THEN 0 ELSE last.depth - 1
  /\ last.op \in {"insert", "insert_witness"} =>
       /\ last.panic <=> (last.depth = 0)
       /\ Depth(scopes[1]) = last.depth
  /\ last.op = "push_scope" => Depth(scopes[1]) = last.depth + 1

\* C2 witness: pop_scope was called with only the outermost level left and
\* removed it without failing.
C2_Witness ==
  /\ last.op = "pop_scope" /\ last.depth = 1 /\ ~last.panic
  /\ Len(scopes[1].variables) = 0 /\ Len(scopes[1].witnesses) = 0

\* C5: a get resolves to the most recently inserted active binding of the
\* identifier: the latest one of a level wins, any binding of a newer level
\* wins over every binding of an older level, and once a level is popped the
\* lookup falls back to the most recent binding that is left.
C5_Shadowing ==
  (last.op = "get" /\ ~last.panic) =>
    LET flat == Flatten(scopes[1].variables)
    IN /\ BoundAt(flat, last.arg) # {}
       /\ FlatPos(scopes[1].variables, last.res.level, last.res.index)
            = Max(BoundAt(flat, last.arg))

\* C5 witness: the identifier was bound in a level that has since been
\* popped, is still bound twice below, and the get answered.
C5_Witness ==
  /\ last.op = "get" /\ ~last.panic
  /\ last.popped # <<>>
  /\ BoundAt(last.popped[1], last.arg) # {}
  /\ Cardinality(BoundAt(Flatten(scopes[1].variables), last.arg)) >= 2
  /\ Len(scopes[1].variables) >= 2


(***************************************************************************)
(* Spec: the lowering, as a machine over an explicit call stack.           *)
(*                                                                         *)
(* A frame is one activation of eval_blk, Expression::eval,                *)
(* SingleExpressionInner::eval or FuncCall::eval: op and kind name the     *)
(* function and the variant of the AST node it is lowering, pc the place   *)
(* it has reached, sc the tracker it was handed (an index into scopes:     *)
(* scopes[1] is the caller's tracker, the others are the clones made by    *)
(* match), ty the required type (for eval_blk: the declared type of the    *)
(* assignment), span the node's span (a node is numbered by the place of   *)
(* its activation on the stack).  nsc is the number of trackers alive      *)
(* when the frame was entered: the clones it makes are dropped on return.  *)
(* env and v0 are ghosts: the number of (value, rest) layers of the        *)
(* runtime environment that the term this activation builds receives, and  *)
(* the variables of its tracker at entry.  fuel is the number of levels    *)
(* the bounds leave to the node and its children (an eval_blk frame has    *)
(* the fuel of its block); at 0 the node is a leaf.                        *)
(***************************************************************************)
Frame(op, kind, sc, ty, span, env, v0, nsc, fuel) ==
  [op |-> op, kind |-> kind, pc |-> "start", sc |-> sc, ty |-> ty, fuel |-> fuel,
   span |-> IF span = 0 THEN Len(stack) + 1 ELSE span,
   env |-> env, v0 |-> v0, nsc |-> nsc,
   index |-> 0, tail |-> FALSE, pat |-> PIgnore, pat2 |-> PIgnore,
   acc |-> <<>>, n |-> 0, name |-> ""]

Top == stack[Len(stack)]

SetScope(k, s) == [scopes EXCEPT ![k] = s]

Running == status = "running" /\ stack # <<>>

CanNest == Top.fuel >= 1
Inner(f) == IF f.fuel >= 1 THEN f.fuel - 1 ELSE 0
\* The activation on top lowers a statement's expression or a block's tail.
InBlock == Len(stack) > 1 /\ stack[Len(stack) - 1].op = "eval_blk"
Room(f) == Len(Flatten(scopes[f.sc].variables)) < MaxBindings
Operand(f) == IF f.fuel >= 2 THEN f.fuel - 2 ELSE 0

AtStart(op) == Running /\ Top.op = op /\ Top.pc = "start"

\* The callee has returned a term to the frame waiting at pc.
Back(op, pc) == Running /\ Top.op = op /\ Top.pc = pc /\ ret.kind = "Ok"

\* The input `let a = true; let b = false; a` as the choices the descent
\* makes on it; follow counts how many of them the input chosen so far has
\* matched, and is Off once it differs.
LetAB == <<"Block", "let", "True", "a", "let", "False", "b", "tail", "var a">>
Off == Len(LetAB) + 1
Follow(tok) ==
  IF follow < Len(LetAB) /\ LetAB[follow + 1] = tok THEN follow + 1 ELSE Off

\* A step that reads a new part of the AST (token tok) and one that reads
\* nothing.
Choice(tok) == follow' = Follow(tok) /\ last' = NoLast
Quiet == UNCHANGED follow /\ last' = NoLast

DoCall(f1, callee, sc2) ==
  /\ stack' = Append([stack EXCEPT ![Len(stack)] = f1], callee)
  /\ scopes' = sc2
  /\ ret' = NoRet
  /\ UNCHANGED <<status, firstFail>>

\* The activation f returns r; sc2 are the trackers as the step leaves them.
DoReturn(f, r, sc2) ==
  /\ stack' = Front(stack)
  /\ scopes' = SubSeq(sc2, 1, f.nsc)
  /\ ret' = [kind |-> r.kind, ty |-> r.ty, err |-> r.err, arg |-> r.arg,
             span |-> r.span, op |-> f.op, fkind |-> f.kind, fspan |-> f.span,
             name |-> f.name, reqd |-> f.ty, v0 |-> f.v0,
             v1 |-> sc2[f.sc].variables]
  /\ status' = IF Len(stack) = 1 THEN "returned" ELSE status
  /\ firstFail' = IF firstFail.kind = "none" /\ r.kind = "Err" THEN r ELSE firstFail

\* panic!, unwrap() on an Err, expect() on a None, unimplemented!: the pass
\* is aborted where it stands.
DoPanic(f, sc2) ==
  /\ status' = "panicked"
  /\ stack' = [stack EXCEPT ![Len(stack)] = f]
  /\ scopes' = sc2
  /\ ret' = NoRet
  /\ firstFail' = IF firstFail.kind = "none" THEN Panicked ELSE firstFail

\* Program::eval(scope) = eval_blk(statements, scope, 0, None), or
\* Expression::eval(scope, reqd_ty), on a fresh tracker.
Init ==
  /\ scopes = <<new>>
  /\ stack \in {<<Frame("eval_blk", "", 1, <<>>, 1, 0, new.variables, 1, MaxNest - 1)>>}
               \cup {<<Frame("Expression", "", 1, t, 1, 0, new.variables, 1, MaxNest - 1)>> :
                       t \in ReqdTypes}
  /\ ret = NoRet
  /\ status = "running"
  /\ last = NoLast
  /\ follow = 0
  /\ firstFail = NoResult

\* The ? operator: an Err handed back to a frame that waits at a call
\* followed by ? is returned by that frame as it is.
QuestionPcs ==
  {"assign_expr", "assign_rest", "call_expr", "call_rest", "tail", "inj",
   "prod_l", "prod_r", "sub", "match_l", "match_r", "match_s", "jet_args",
   "unwrap"}

Propagate ==
  /\ Running
  /\ ret.kind = "Err"
  /\ Top.pc \in QuestionPcs
  /\ DoReturn(Top, Core(ret), scopes)
  /\ Quiet

(***************************************************************************)
(* eval_blk                                                                *)
(***************************************************************************)
\* index >= stmts.len(), last_expr = Some(expr): expr.eval(scope, None)
BlkTail ==
  /\ AtStart("eval_blk")
  /\ Top.tail
  /\ DoCall([Top EXCEPT !.pc = "tail"],
            Frame("Expression", "", Top.sc, <<>>, 0, Top.env,
                  scopes[Top.sc].variables, Len(scopes), Top.fuel),
            scopes)
  /\ Choice("tail")

BlkTailDone ==
  /\ Back("eval_blk", "tail")
  /\ DoReturn(Top, Core(ret), scopes)
  /\ Quiet

\* index >= stmts.len(), last_expr = None: Ok(ProgNode::unit())
BlkUnit ==
  /\ AtStart("eval_blk")
  /\ ~Top.tail
  /\ DoReturn(Top, Ok(TUnit), scopes)
  /\ Choice("end")

\* Statement::Assignment: assignment.expression.eval(scope, assignment.ty)
BlkAssignment ==
  /\ AtStart("eval_blk")
  /\ Top.index < MaxStmts
  /\ Room(Top)
  /\ \E t \in ReqdTypes :
       /\ DoCall([Top EXCEPT !.kind = "Assignment", !.pc = "assign_expr"],
                 Frame("Expression", "", Top.sc, t, 0, Top.env,
                       scopes[Top.sc].variables, Len(scopes), Top.fuel),
                 scopes)
       /\ Choice(IF t = <<>> THEN "let" ELSE "let typed")

PatternTok(p) ==
  IF p = PId("a") THEN "a" ELSE IF p = PId("b") THEN "b" ELSE "pattern"

\* The tracker and the environment that the rest of the block is lowered
\* with after `let pattern = expr`: scope.insert(pattern), and the rest
\* receives pair_iden(expr)'s output, (value, old environment).
AfterAssignment(f) ==
  LET r == insert(scopes[f.sc], Binding(f.pat, <<f.span, "let">>))
  IN [panic |-> r.panic, scope |-> r.scope, env |-> f.env + 1]

\* scope.insert(assignment.pattern.clone());
\* eval_blk(stmts, scope, index + 1, last_expr)
BlkAssigned ==
  /\ Back("eval_blk", "assign_expr")
  /\ \E p \in LetPatterns :
       LET f == [Top EXCEPT !.pat = p]
           a == AfterAssignment(f)
           sc2 == SetScope(f.sc, a.scope)
           rest == [Frame("eval_blk", "", f.sc, <<>>, 0, a.env,
                          a.scope.variables, Len(scopes), f.fuel)
                      EXCEPT !.index = f.index + 1, !.tail = f.tail]
       IN /\ IF a.panic THEN DoPanic(f, sc2)
             ELSE DoCall([f EXCEPT !.pc = "assign_rest"], rest, sc2)
          /\ Choice(PatternTok(p))

\* ProgNode::comp(&left, &right).with_span(assignment.span)
BlkAssignRest ==
  /\ Back("eval_blk", "assign_rest")
  /\ \E fails \in BOOLEAN :
       DoReturn(Top, IF fails THEN Err("TypeError", <<>>, Top.span) ELSE Ok(ret.ty),
                scopes)
  /\ Quiet

\* Statement::FuncCall: func_call.eval(scope, None)
BlkFuncCall ==
  /\ AtStart("eval_blk")
  /\ Top.index < MaxStmts
  /\ DoCall([Top EXCEPT !.kind = "FuncCall", !.pc = "call_expr"],
            Frame("FuncCall", "", Top.sc, <<>>, 0, Top.env,
                  scopes[Top.sc].variables, Len(scopes), Top.fuel),
            scopes)
  /\ Choice("call")

\* eval_blk(stmts, scope, index + 1, last_expr) after a call statement
BlkCalled ==
  /\ Back("eval_blk", "call_expr")
  /\ LET f == Top
         rest == [Frame("eval_blk", "", f.sc, <<>>, 0, f.env,
                        scopes[f.sc].variables, Len(scopes), f.fuel)
                    EXCEPT !.index = f.index + 1, !.tail = f.tail]
     IN DoCall([f EXCEPT !.pc = "call_rest", !.span = ret.fspan], rest, scopes)
  /\ Quiet

\* combine_seq(&left, &right).with_span(func_call.span)
BlkCallRest ==
  /\ Back("eval_blk", "call_rest")
  /\ \E fails \in BOOLEAN :
       DoReturn(Top, IF fails THEN Err("TypeError", <<>>, Top.span) ELSE Ok(ret.ty),
                scopes)
  /\ Quiet

(***************************************************************************)
(* Expression::eval                                                        *)
(***************************************************************************)
\* ExpressionInner::BlockExpression: scope.push_scope(); eval_blk(stmts, scope, 0, Some(expr))
ExprBlock ==
  /\ AtStart("Expression")
  /\ CanNest \/ InBlock
  /\ Depth(scopes[Top.sc]) < MaxLevels
  /\ LET f == Top
         sc2 == SetScope(f.sc, push_scope(scopes[f.sc]))
     IN DoCall([f EXCEPT !.kind = "Block", !.pc = "block"],
               [Frame("eval_blk", "", f.sc, <<>>, 0, f.env,
                      sc2[f.sc].variables, Len(scopes), Inner(f))
                  EXCEPT !.tail = TRUE],
               sc2)
  /\ Choice("Block")

\* scope.pop_scope(); res
ExprBlockDone ==
  /\ Running
  /\ Top.op = "Expression" /\ Top.pc = "block"
  /\ ret.kind # "none"
  /\ LET f == Top
         r == pop_scope(scopes[f.sc])
         sc2 == SetScope(f.sc, r.scope)
     IN IF r.panic THEN DoPanic(f, sc2) ELSE DoReturn(f, Core(ret), sc2)
  /\ Quiet


(***************************************************************************)
(* SingleExpressionInner::eval                                             *)
(***************************************************************************)
\* The tail of SingleExpressionInner::eval: the term's target type is
\* unified with the required type, if there is one.
FinalCheck(ty, reqd, span) ==
  IF reqd = <<>> THEN Ok(ty)
  ELSE IF Unify(ty, to_simplicity(reqd[1]))
       THEN Ok(Merge(ty, to_simplicity(reqd[1])))
       ELSE Err("TypeValueMismatch", reqd[1], span)

NewExpr(f, fuel) ==
  Frame("Expression", "", f.sc, <<>>, 0, f.env, scopes[f.sc].variables, Len(scopes),
        fuel)

\* Unit, None | False, True
Consts ==
  {[kind |-> "Unit", ty |-> TUnit],
   [kind |-> "False", ty |-> TSum(TUnit, TFree)],
   [kind |-> "True", ty |-> TSum(TFree, TUnit)]}

SingleConst ==
  /\ AtStart("Expression")
  /\ \E c \in Consts :
       /\ DoReturn([Top EXCEPT !.kind = c.kind],
                   FinalCheck(c.ty, Top.ty, Top.span), scopes)
       /\ Choice(c.kind)

\* Left(l); Right(r) | Some(r)
SingleInj ==
  /\ AtStart("Expression")
  /\ CanNest
  /\ \E k \in {"Left", "Right"} :
       DoCall([Top EXCEPT !.kind = k, !.pc = "inj"],
              NewExpr(Top, Operand(Top)), scopes)
  /\ Choice("inj")

SingleInjDone ==
  /\ Back("Expression", "inj")
  /\ LET ty == IF Top.kind = "Left" THEN TSum(ret.ty, TFree) ELSE TSum(TFree, ret.ty)
     IN DoReturn(Top, FinalCheck(ty, Top.ty, Top.span), scopes)
  /\ Quiet

\* Product(l, r)
SingleProduct ==
  /\ AtStart("Expression")
  /\ CanNest
  /\ DoCall([Top EXCEPT !.kind = "Product", !.pc = "prod_l"],
            NewExpr(Top, Operand(Top)), scopes)
  /\ Choice("Product")

ProductLeftDone ==
  /\ Back("Expression", "prod_l")
  /\ DoCall([Top EXCEPT !.pc = "prod_r", !.acc = <<ret.ty>>], NewExpr(Top, Operand(Top)), scopes)
  /\ Quiet

\* ProgNode::pair(&l, &r).with_span(span)?
ProductRightDone ==
  /\ Back("Expression", "prod_r")
  /\ \E fails \in BOOLEAN :
       DoReturn(Top,
                IF fails THEN Err("TypeError", <<>>, Top.span)
                ELSE FinalCheck(TProd(Top.acc[1], ret.ty), Top.ty, Top.span),
                scopes)
  /\ Quiet

\* UnsignedInteger(decimal): the literal fits the type or does not.
SingleUnsignedInteger ==
  /\ AtStart("Expression")
  /\ \E fits \in BOOLEAN :
       LET f == [Top EXCEPT !.kind = "UnsignedInteger"]
           reqd == IF f.ty = <<>> THEN UInt(32) ELSE f.ty[1]
           u == to_uint(reqd)
       IN DoReturn(f,
                   IF u = <<>> THEN Err("TypeValueMismatch", reqd, f.span)
                   ELSE IF ~fits THEN Err("ParseError", <<>>, f.span)
                   ELSE FinalCheck(TWord(u[1]), f.ty, f.span),
                   scopes)
  /\ Choice("UnsignedInteger")

\* Witness(name)
SingleWitness ==
  /\ AtStart("Expression")
  /\ Len(Flatten(scopes[Top.sc].witnesses)) < MaxWitnesses
  /\ \E w \in WitnessNames :
       LET f == [Top EXCEPT !.kind = "Witness"]
           r == insert_witness(scopes[f.sc], w)
           sc2 == SetScope(f.sc, r.scope)
       IN IF r.panic THEN DoPanic(f, sc2)
          ELSE DoReturn(f, FinalCheck(TFree, f.ty, f.span), sc2)
  /\ Choice("Witness")

\* Variable(identifier): scope.get(identifier)
SingleVariable ==
  /\ AtStart("Expression")
  /\ \E i \in Identifiers :
       LET f == [Top EXCEPT !.kind = "Variable"]
           r == get(scopes[f.sc], i)
       IN /\ IF r.panic THEN DoPanic(f, scopes)
             ELSE DoReturn(f, FinalCheck(TFree, f.ty, f.span), scopes)
          /\ last' = [op |-> "get", panic |-> r.panic, depth |-> Depth(scopes[f.sc]),
                      arg |-> i, res |-> r, popped |-> <<>>,
                      org |-> OrgOf(scopes[f.sc], r)]
          /\ follow' = Follow(IF i = "a" THEN "var a" ELSE "var")

\* FuncCall(call): call.eval(scope, reqd_ty)?
SingleFuncCall ==
  /\ AtStart("Expression")
  /\ CanNest
  /\ DoCall([Top EXCEPT !.kind = "FuncCall", !.pc = "sub"],
            Frame("FuncCall", "", Top.sc, Top.ty, 0, Top.env,
                  scopes[Top.sc].variables, Len(scopes), Inner(Top)),
            scopes)
  /\ Choice("FuncCall")

\* Expression(expression): expression.eval(scope, reqd_ty)?
SingleExpression ==
  /\ AtStart("Expression")
  /\ CanNest
  /\ DoCall([Top EXCEPT !.kind = "Expression", !.pc = "sub"],
            Frame("Expression", "", Top.sc, Top.ty, 0, Top.env,
                  scopes[Top.sc].variables, Len(scopes), Inner(Top)),
            scopes)
  /\ Choice("Expression")

SingleSubDone ==
  /\ Back("Expression", "sub")
  /\ DoReturn(Top, FinalCheck(ret.ty, Top.ty, Top.span), scopes)
  /\ Quiet


(***************************************************************************)
(* Match { scrutinee, left, right }                                        *)
(***************************************************************************)
\* pattern.get_identifier().cloned().map(Pattern::Identifier).unwrap_or(Pattern::Ignore)
ArmPattern(p) ==
  IF get_identifier(p) # <<>> THEN PId(get_identifier(p)[1]) ELSE PIgnore

\* A plausible slip: an arm whose pattern is no identifier inserts nothing.
ArmScope_NoPlaceholder(s, p, org) ==
  IF get_identifier(p) = <<>> THEN [panic |-> FALSE, scope |-> s]
  ELSE insert(s, Binding(ArmPattern(p), org))

\* let mut x_scope = scope.clone(); x_scope.insert(..)
ArmScope(s, p, org) == insert(s, Binding(ArmPattern(p), org))

\* A plausible slip: the right arm's tracker is cloned from the left arm's.
RightArmSource_LeftClone(f) == scopes[f.nsc + 1]

\* The tracker that r_scope is cloned from: scope, the caller's.
RightArmSource(f) == scopes[f.sc]

SingleMatch ==
  /\ AtStart("Expression")
  /\ CanNest
  /\ Room(Top)
  /\ \E pl \in ArmPatterns :
       LET f == [Top EXCEPT !.kind = "Match", !.pc = "match_l", !.pat = pl]
           l == ArmScope(scopes[f.sc], pl, <<f.span, "L">>)
           sc2 == Append(scopes, l.scope)
       IN IF l.panic THEN DoPanic(f, scopes)
          ELSE DoCall(f,
                      Frame("Expression", "", Len(sc2), f.ty, 0, f.env + 1,
                            l.scope.variables, Len(sc2), Inner(f)),
                      sc2)
  /\ Choice("Match")

\* let l_compiled = left.expression.eval(&mut l_scope, reqd_ty)?; r_scope ..
MatchLeftDone ==
  /\ Back("Expression", "match_l")
  /\ \E pr \in ArmPatterns :
       LET f == [Top EXCEPT !.pc = "match_r", !.acc = <<ret.ty>>, !.pat2 = pr]
           r == ArmScope(RightArmSource(f), pr, <<f.span, "R">>)
           sc2 == Append(scopes, r.scope)
       IN IF r.panic THEN DoPanic(f, scopes)
          ELSE DoCall(f,
                      Frame("Expression", "", Len(sc2), f.ty, 0, f.env + 1,
                            r.scope.variables, Len(sc2), Inner(f)),
                      sc2)
  /\ Choice("Match")

\* let r_compiled = ..?; scrutinee.eval(scope, None).  acc keeps the arms'
\* unified target type, or nothing when case(l, r) is going to fail.
MatchRightDone ==
  /\ Back("Expression", "match_r")
  /\ DoCall([Top EXCEPT !.pc = "match_s",
                         !.acc = IF Unify(@[1], ret.ty) THEN <<Merge(@[1], ret.ty)>>
                                 ELSE <<>>],
            NewExpr(Top, Inner(Top)), scopes)
  /\ Quiet

\* pair_iden(scrutinee); case(l, r).with_span(span)?; comp(input, output).with_span(span)?
MatchScrutineeDone ==
  /\ Back("Expression", "match_s")
  /\ \E fails \in BOOLEAN :
       LET f == Top
       IN DoReturn(f,
                   IF \/ fails
                      \/ f.acc = <<>>
                      \/ ~Unify(ret.ty, TSum(TFree, TFree))
                   THEN Err("TypeError", <<>>, f.span)
                   ELSE FinalCheck(f.acc[1], f.ty, f.span),
                   scopes)
  /\ Quiet

(***************************************************************************)
(* Array(elements), List(elements)                                         *)
(***************************************************************************)
\* if let Some(Type::Array(ty, _)) = reqd_ty { Some(ty) } else { None }
ElType(reqd, k) ==
  IF reqd # <<>> /\ reqd[1][1] = k THEN <<reqd[1][2]>> ELSE <<>>

Element(f) ==
  Frame("Expression", "", f.sc, ElType(f.ty, f.kind), 0, f.env,
        scopes[f.sc].variables, Len(scopes), Operand(f))

SingleArray ==
  /\ AtStart("Expression")
  /\ CanNest
  /\ \E k \in {"Array", "List"}, n \in 1..MaxElems :
       LET f == [Top EXCEPT !.kind = k, !.pc = "elem", !.n = n]
       IN DoCall(f, Element(f), scopes)
  /\ Choice("Array")

\* The arguments of a jet call: SingleExpressionInner::Array(self.args.clone())
ArgsArray ==
  /\ AtStart("Single")
  /\ \E n \in 1..MaxElems :
       LET f == [Top EXCEPT !.pc = "elem", !.n = n]
       IN DoCall(f, Element(f), scopes)
  /\ Quiet

\* The target type of the folded elements.
Folded(f, tys) ==
  IF f.kind = "Array" THEN fold(tys)
  ELSE LET bound == IF f.ty # <<>> /\ f.ty[1][1] = "List" THEN f.ty[1][3]
                    ELSE NextPow2(Len(tys) + 1, 1)
       IN partition_fold(tys, bound \div 2)

\* e.eval(scope, el_type).unwrap() on an Ok; after the last element the fold,
\* whose ProgNode::pair(&a, &b).unwrap() may fail when there is a pair.
ElementDone ==
  /\ Running
  /\ Top.pc = "elem"
  /\ ret.kind = "Ok"
  /\ LET f == [Top EXCEPT !.acc = Append(@, ret.ty)]
     IN IF Len(f.acc) < f.n THEN DoCall(f, Element(f), scopes)
        ELSE \E fails \in BOOLEAN :
               IF fails /\ Len(f.acc) >= 2 THEN DoPanic(f, scopes)
               ELSE DoReturn(f, FinalCheck(Folded(f, f.acc), f.ty, f.span), scopes)
  /\ Quiet

\* e.eval(scope, el_type).unwrap() on an Err
ElementUnwrap ==
  /\ Running
  /\ Top.pc = "elem"
  /\ ret.kind = "Err"
  /\ DoPanic(Top, scopes)
  /\ Quiet

(***************************************************************************)
(* FuncCall::eval                                                          *)
(***************************************************************************)
\* Elements::from_str(name).map_err(JetDoesNotExist).with_span(span)?;
\* ProgNode::comp(&args_expr, &jet_expr).with_span(span)
JetResult(name, argsTy, span, fails) ==
  IF name \notin Jets THEN Err("JetDoesNotExist", <<name>>, span)
  ELSE IF fails \/ ~Unify(argsTy, JetSource(name)) THEN Err("TypeError", <<>>, span)
  ELSE Ok(JetTarget(name))

\* FuncType::Jet(name), no arguments: args = SingleExpressionInner::Unit
FuncJetNoArgs ==
  /\ AtStart("FuncCall")
  /\ \E name \in JetNames, fails \in BOOLEAN :
       LET f == [Top EXCEPT !.kind = "Jet", !.name = name]
       IN DoReturn(f, JetResult(name, TUnit, f.span, fails), scopes)
  /\ Choice("Jet")

\* FuncType::Jet(name) with arguments: args.eval(scope, None, self.span)?
FuncJetArgs ==
  /\ AtStart("FuncCall")
  /\ CanNest
  /\ \E name \in JetNames :
       LET f == [Top EXCEPT !.kind = "Jet", !.name = name, !.pc = "jet_args"]
       IN DoCall(f,
                 Frame("Single", "Array", f.sc, <<>>, f.span, f.env,
                       scopes[f.sc].variables, Len(scopes), f.fuel),
                 scopes)
  /\ Choice("Jet")

JetArgsDone ==
  /\ Back("FuncCall", "jet_args")
  /\ \E fails \in BOOLEAN :
       DoReturn(Top, JetResult(Top.name, ret.ty, Top.span, fails), scopes)
  /\ Quiet

\* FuncType::BuiltIn(..) => unimplemented!(..)
FuncBuiltIn ==
  /\ AtStart("FuncCall")
  /\ DoPanic([Top EXCEPT !.kind = "BuiltIn"], scopes)
  /\ Choice("BuiltIn")

\* FuncType::UnwrapLeft; FuncType::UnwrapRight | FuncType::Unwrap
FuncUnwrap ==
  /\ AtStart("FuncCall")
  /\ CanNest
  /\ \E k \in {"UnwrapLeft", "UnwrapRight"} :
       DoCall([Top EXCEPT !.kind = k, !.pc = "unwrap"],
              NewExpr(Top, Operand(Top)), scopes)
  /\ Choice("Unwrap")

\* ProgNode::comp(&left_and_unit, &get_inner).with_span(self.span)
UnwrapDone ==
  /\ Back("FuncCall", "unwrap")
  /\ \E fails \in BOOLEAN :
       LET f == Top
           t == Expand(ret.ty)
       IN DoReturn(f,
                   IF fails \/ ~Unify(ret.ty, TSum(TFree, TFree))
                   THEN Err("TypeError", <<>>, f.span)
                   ELSE IF t[1] = "free" THEN Ok(TFree)
                   ELSE IF f.kind = "UnwrapLeft" THEN Ok(t[2]) ELSE Ok(t[3]),
                   scopes)
  /\ Quiet

Next ==
  \/ Propagate
  \/ BlkTail \/ BlkTailDone \/ BlkUnit
  \/ BlkAssignment \/ BlkAssigned \/ BlkAssignRest
  \/ BlkFuncCall \/ BlkCalled \/ BlkCallRest
  \/ ExprBlock \/ ExprBlockDone
  \/ SingleConst \/ SingleInj \/ SingleInjDone
  \/ SingleProduct \/ ProductLeftDone \/ ProductRightDone
  \/ SingleUnsignedInteger \/ SingleWitness \/ SingleVariable
  \/ SingleFuncCall \/ SingleExpression \/ SingleSubDone
  \/ SingleMatch \/ MatchLeftDone \/ MatchRightDone \/ MatchScrutineeDone
  \/ SingleArray \/ ArgsArray \/ ElementDone \/ ElementUnwrap
  \/ FuncJetNoArgs \/ FuncJetArgs \/ JetArgsDone \/ FuncBuiltIn
  \/ FuncUnwrap \/ UnwrapDone

Spec == Init /\ [][Next]_vars

(***************************************************************************)
(* Properties of the lowering.                                             *)
(***************************************************************************)
\* C3: when Expression::eval returns from a block expression, with a term or
\* with an error, the tracker has as many levels as when it was called, at
\* any nesting depth of the block.
C3_Balanced ==
  (ret.op = "Expression" /\ ret.fkind = "Block") =>
    /\ ret.kind \in {"Ok", "Err"}
    /\ Len(ret.v1) = Len(ret.v0)

\* C3 witness: a block nested in another block has returned an error, met
\* in one of its statements or in its tail.
C3_Witness ==
  /\ ret.op = "Expression" /\ ret.fkind = "Block" /\ ret.kind = "Err"
  /\ Len(ret.v0) >= 2
  /\ Len(ret.v1) = Len(ret.v0)

\* The tags of the bindings that the arms of a match insert.
ArmTags == {"L", "R"}

\* The match with span sp is lowering, below place k of the stack, the arm
\* (side "L" or "R") that tag names.
ArmOpen(k, tag) ==
  \E j \in 1..(k - 1) :
    /\ stack[j].op = "Expression" /\ stack[j].kind = "Match"
    /\ stack[j].span = tag[1]
    /\ stack[j].pc = (IF tag[2] = "L" THEN "match_l" ELSE "match_r")

\* C4: the binding of a match arm is in the tracker of an activation only
\* while that arm's body is lowered, so a lookup in the other arm, in the
\* scrutinee or after the match never resolves to it; and when the match has
\* been lowered the caller's tracker holds the variables it held before.
C4_ArmIsolation ==
  /\ \A k \in 1..Len(stack) :
       LET flat == Flatten(scopes[stack[k].sc].variables)
       IN \A i \in 1..Len(flat) :
            flat[i].org[2] \in ArmTags => ArmOpen(k, flat[i].org)
  /\ (last.op = "get" /\ last.org[2] \in ArmTags) =>
       ArmOpen(Len(stack) + 1, last.org)
  /\ (ret.op = "Expression" /\ ret.fkind = "Match") => ret.v1 = ret.v0

\* C4 witness: the left arm bound a, the right arm binds nothing by name,
\* and the lookup of a in the right arm's body found no binding.
C4_Witness ==
  /\ Len(stack) >= 2
  /\ stack[Len(stack) - 1].kind = "Match"
  /\ stack[Len(stack) - 1].pc = "match_r"
  /\ stack[Len(stack) - 1].pat = PId("a")
  /\ stack[Len(stack) - 1].pat2 = PIgnore
  /\ last.op = "get" /\ last.arg = "a" /\ last.panic

\* C6: an expression lowered with a required type that returns a term
\* returns one whose output type unifies with the required type.
C6_TypeHint ==
  (ret.op = "Expression" /\ ret.kind = "Ok" /\ ret.reqd # <<>>) =>
    Unify(ret.ty, to_simplicity(ret.reqd[1]))

\* C7: the pass never aborts, and when it returns after a failure it returns
\* the first failure met.
C7_ErrorsPropagate ==
  /\ status # "panicked"
  /\ (status = "returned" /\ firstFail.kind # "none") => Core(ret) = firstFail

\* C8: a call of a jet that the registry does not know never aborts the
\* pass, and returns JetDoesNotExist with the name and the call's span.
C8_UnknownJet ==
  /\ \A k \in 1..Len(stack) :
       (stack[k].op = "FuncCall" /\ stack[k].kind = "Jet" /\ stack[k].name \notin Jets)
         => status # "panicked"
  /\ (ret.op = "FuncCall" /\ ret.fkind = "Jet" /\ ret.name \notin Jets) =>
       /\ ret.kind = "Err" /\ ret.err = "JetDoesNotExist"
       /\ ret.arg = <<ret.name>> /\ ret.span = ret.fspan

\* The lookup of the tail of `let a = true; let b = false; a` has just been
\* made.
LetABLookup == follow = Len(LetAB) /\ last.op = "get" /\ last.arg = "a"

\* C9 as claimed: the tail variable a of `let a = true; let b = false; a`
\* resolves to a path with two right-steps (drop) in front of the take.
C9_TwoRightSteps ==
  LetABLookup => (~last.panic /\ OuterDrops(last.res.expr) = 2)

\* C9 as amended: the tail variable a of `let a = true; let b = false; a`
\* resolves to drop (take iden): one right-step, for the one binding (b)
\* made after a, then the take into a's binding.
C9_OneRightStep ==
  LetABLookup => (~last.panic /\ last.res.expr = <<"drop", "take", "iden">>)

\* C9 witness: the block `let a = true; let b = false; a` has been lowered
\* from a fresh tracker up to the lookup of its tail.
C9_Witness ==
  /\ LetABLookup
  /\ Len(stack) >= 1 /\ stack[1].kind = "Block"
  /\ [k \in 1..2 |-> Flatten(scopes[1].variables)[k].pat] = <<PId("a"), PId("b")>>

\* C10: every activation is handed a tracker whose bindings, over all its
\* levels, are as many as the (value, rest) layers of the environment that
\* the term it builds receives.
C10_TrackerMatchesEnv ==
  \A k \in 1..Len(stack) :
    /\ Len(Flatten(stack[k].v0)) = stack[k].env
    /\ stack[k].pc = "start" => scopes[stack[k].sc].variables = stack[k].v0

\* C10 witness: after an assignment, the body of a match arm whose pattern
\* names nothing is lowered with two bindings.
C10_Witness ==
  \E k \in 2..Len(stack) :
    /\ stack[k - 1].kind = "Match" /\ stack[k - 1].pc = "match_l"
    /\ stack[k - 1].pat = PIgnore
    /\ stack[k].pc = "start" /\ stack[k].env = 2

====
